---- MODULE Spec2Model ----
(***************************************************************************)
(* A model of the Hilbert-style propositional proof engine:               *)
(*   propositions.py  PrimitiveProposition, Proposition, Proof            *)
(*   deduction.py     use_deduction_theorem                               *)
(* A formula is a record carrying the fields of the Python object; a      *)
(* proof is a record of its three attributes.  The client drives the      *)
(* proof through the step constructors, then may hand it to the           *)
(* deduction transformer, whose loop is followed one original line at a   *)
(* time.                                                                  *)
(***************************************************************************)
EXTENDS Naturals, Sequences, FiniteSets, TLC

(***************************************************************************)
(* Bound of the model.                                                     *)
(***************************************************************************)
\* number of lines the client may append to a proof after its premises
MaxSteps == 2

(***************************************************************************)
(* propositions.py: formulas                                               *)
(***************************************************************************)
\* PrimitiveProposition.__init__: an object with a name only
PrimitiveProposition(name) == [name |-> name]

\* PrimitiveProposition.__str__ / __repr__: the name
str(a) == a.name

\* Proposition.__init__: left, right and the name "(left => right)"
Proposition(left, right) ==
    [left |-> left, right |-> right,
     name |-> "(" \o str(left) \o " => " \o str(right) \o ")"]

\* PrimitiveProposition.__hash__: hash(self.name).  The hash of a Python
\* string is taken to be collision-free on the names the model builds.
hash(a) == a.name

\* PrimitiveProposition.__eq__: equal hashes
eq(a, b) == hash(a) = hash(b)

\* PrimitiveProposition.__gt__: (a > b) builds Proposition(a, b)
gt(a, b) == Proposition(a, b)

\* the module constants false, p, q; the name of false, the one character
\* U+22A5 in the source, is written _|_ here
false == PrimitiveProposition("_|_")
p == PrimitiveProposition("p")
q == PrimitiveProposition("q")

\* PrimitiveProposition.__invert__: ~a is (a > false)
invert(a) == gt(a, false)

\* isinstance(a, Proposition): the object has left and right
IsProposition(a) == DOMAIN a = {"left", "right", "name"}

(***************************************************************************)
(* Python list and set operations under __eq__                             *)
(***************************************************************************)
\* x in list
InList(x, list) == \E i \in 1..Len(list) : eq(list[i], x)

\* index that finds the last element equal to x
index_last(list, x) ==
    (CHOOSE i \in 1..Len(list) :
        /\ eq(list[i], x)
        /\ \A j \in (i + 1)..Len(list) : ~eq(list[j], x)) - 1

\* list.index(x): 0-based position of the first element equal to x
index(list, x) ==
    (CHOOSE i \in 1..Len(list) :
        /\ eq(list[i], x)
        /\ \A j \in 1..(i - 1) : ~eq(list[j], x)) - 1

\* InSet with the membership test lost: every formula passes for a premise
InSet_always(x, set) == TRUE

\* x in set
InSet(x, set) == \E y \in set : eq(y, x)

\* SetMinus that removes nothing
SetMinus_keep(set, x) == set

\* set - {x}
SetMinus(set, x) == {y \in set : ~eq(y, x)}

\* list(set): the enumerations of a set, in any order
ListsOf(set) ==
    {l \in [1..Cardinality(set) -> set] : \A y \in set : \E i \in DOMAIN l : l[i] = y}

\* list[-1]
Last(list) == list[Len(list)]

(***************************************************************************)
(* propositions.py: Proof                                                  *)
(***************************************************************************)
\* the application strings "(premise)", "(A1)", "(A2)", "(A3)", "(MP i, j)"
\* as records of their kind and the two numbers they print
PremiseApp == [kind |-> "premise", i |-> 0, j |-> 0]
A1App == [kind |-> "A1", i |-> 0, j |-> 0]
A2App == [kind |-> "A2", i |-> 0, j |-> 0]
A3App == [kind |-> "A3", i |-> 0, j |-> 0]
MPApp(i, j) == [kind |-> "MP", i |-> i, j |-> j]

\* application.startswith("(A")
StartsWithA(application) == application.kind \in {"A1", "A2", "A3"}

\* exceptions: the kind of message and the formula text it prints
NoError == [kind |-> "none", name |-> ""]
Error(kind, a) == [kind |-> kind, name |-> str(a)]
IndexError == [kind |-> "IndexError", name |-> ""]

\* the outcome of a method: the proof object afterwards and what was raised
Ok(self) == [proof |-> self, error |-> NoError]
Raise(self, e) == [proof |-> self, error |-> e]

\* the identities (id()) of the three containers a Proof object refers to.
\* Proof.__init__ keeps the set it is given and creates two lists
ObjectIds(set_id, fresh) ==
    [premises |-> set_id, lines |-> fresh, applications |-> fresh + 1]

\* Proof.__init__: lines is list(premises), in the order `order`; ids are
\* the identities of the set passed in and of the two new lists
Proof(premises, order, ids) ==
    [premises |-> premises,
     lines |-> order,
     applications |-> [i \in 1..Len(order) |-> PremiseApp],
     ids |-> ids]

\* Proof.axiom_1
axiom_1(self, a, b) ==
    [self EXCEPT !.lines = Append(@, gt(a, gt(b, a))),
                 !.applications = Append(@, A1App)]

\* axiom_2 that inserts its line at the front instead of appending it
axiom_2_insert(self, a, b, c) ==
    [self EXCEPT !.lines = <<gt(gt(a, gt(b, c)), gt(gt(a, b), gt(a, c)))>> \o @,
                 !.applications = <<A2App>> \o @]

\* Proof.axiom_2
axiom_2(self, a, b, c) ==
    [self EXCEPT !.lines = Append(@, gt(gt(a, gt(b, c)), gt(gt(a, b), gt(a, c)))),
                 !.applications = Append(@, A2App)]

\* axiom_3 with a single negation: (~a => a)
axiom_3_single(self, a) ==
    [self EXCEPT !.lines = Append(@, gt(invert(a), a)),
                 !.applications = Append(@, A3App)]

\* Proof.axiom_3
axiom_3(self, a) ==
    [self EXCEPT !.lines = Append(@, gt(invert(invert(a)), a)),
                 !.applications = Append(@, A3App)]

\* modus_ponens that cites the implication first and the antecedent second
modus_ponens_swapped(self, a, b) ==
    IF ~InList(a, self.lines)
    THEN Raise(self, Error("Antecedent", a))
    ELSE IF ~InList(gt(a, b), self.lines)
    THEN Raise(self, Error("Implication", gt(a, b)))
    ELSE LET appended == Append(self.lines, b)
         IN  Ok([self EXCEPT
                   !.lines = appended,
                   !.applications =
                       Append(@, MPApp(index(appended, gt(a, b)) + 1,
                                       index(appended, a) + 1))])

\* modus_ponens that cites the 0-based positions
modus_ponens_zero_based(self, a, b) ==
    IF ~InList(a, self.lines)
    THEN Raise(self, Error("Antecedent", a))
    ELSE IF ~InList(gt(a, b), self.lines)
    THEN Raise(self, Error("Implication", gt(a, b)))
    ELSE LET appended == Append(self.lines, b)
         IN  Ok([self EXCEPT
                   !.lines = appended,
                   !.applications =
                       Append(@, MPApp(index(appended, a),
                                       index(appended, gt(a, b))))])

\* modus_ponens that appends the antecedent instead of the consequent
modus_ponens_appends_antecedent(self, a, b) ==
    IF ~InList(a, self.lines)
    THEN Raise(self, Error("Antecedent", a))
    ELSE IF ~InList(gt(a, b), self.lines)
    THEN Raise(self, Error("Implication", gt(a, b)))
    ELSE LET appended == Append(self.lines, a)
         IN  Ok([self EXCEPT
                   !.lines = appended,
                   !.applications =
                       Append(@, MPApp(index(appended, a) + 1,
                                       index(appended, gt(a, b)) + 1))])

\* modus_ponens that appends the line before it looks for the implication
modus_ponens_partial(self, a, b) ==
    IF ~InList(a, self.lines)
    THEN Raise(self, Error("Antecedent", a))
    ELSE IF ~InList(gt(a, b), self.lines)
    THEN Raise([self EXCEPT !.lines = Append(@, b)], Error("Implication", gt(a, b)))
    ELSE LET appended == Append(self.lines, b)
         IN  Ok([self EXCEPT
                   !.lines = appended,
                   !.applications =
                       Append(@, MPApp(index(appended, a) + 1,
                                       index(appended, gt(a, b)) + 1))])

\* Proof.modus_ponens
modus_ponens(self, a, b) ==
    IF ~InList(a, self.lines)
    THEN Raise(self, Error("Antecedent", a))
    ELSE IF ~InList(gt(a, b), self.lines)
    THEN Raise(self, Error("Implication", gt(a, b)))
    ELSE LET appended == Append(self.lines, b)
         IN  Ok([self EXCEPT
                   !.lines = appended,
                   !.applications =
                       Append(@, MPApp(index(appended, a) + 1,
                                       index(appended, gt(a, b)) + 1))])

\* conclude that returns the first line
conclude_first(self) ==
    IF Len(self.lines) = 0
    THEN [value |-> <<>>, error |-> IndexError]
    ELSE [value |-> <<self.lines[1]>>, error |-> NoError]

\* Proof.conclude: lines[-1], IndexError on an empty list
conclude(self) ==
    IF Len(self.lines) = 0
    THEN [value |-> <<>>, error |-> IndexError]
    ELSE [value |-> <<Last(self.lines)>>, error |-> NoError]

(***************************************************************************)
(* deduction.py: use_deduction_theorem                                     *)
(***************************************************************************)
\* Case 1: line is the premise itself.  A raise ends the case: the
\* statements after it are not run
case_1(new, prem) ==
    LET s1 == axiom_1(new, prem, gt(prem, prem))
        s2 == axiom_2(s1, prem, gt(prem, prem), prem)
        s3 == modus_ponens(s2, gt(prem, gt(gt(prem, prem), prem)),
                               gt(gt(prem, gt(prem, prem)), gt(prem, prem)))
    IN  IF s3.error # NoError
        THEN s3
        ELSE modus_ponens(axiom_1(s3.proof, prem, prem),
                          gt(prem, gt(prem, prem)), gt(prem, prem))

\* case 2 that states the axiom twice
case_2_twice(new, prem, line) ==
    modus_ponens(axiom_1(axiom_1(new, line, prem), line, prem), line, gt(prem, line))

\* case 2 that stops after axiom_1
case_2_axiom_only(new, prem, line) ==
    Ok(axiom_1(new, line, prem))

\* Case 2: line is another premise
case_2(new, prem, line) ==
    modus_ponens(axiom_1(new, line, prem), line, gt(prem, line))

\* case 3 that restates the line without its application
case_3_no_application(new, prem, line, application) ==
    LET restated == [new EXCEPT !.lines = Append(@, line)]
    IN  modus_ponens(axiom_1(restated, line, prem), line, gt(prem, line))

\* Case 3: line is an axiom, restated with its application and then as case 2
case_3(new, prem, line, application) ==
    LET restated == [new EXCEPT !.lines = Append(@, line),
                                !.applications = Append(@, application)]
    IN  modus_ponens(axiom_1(restated, line, prem), line, gt(prem, line))

\* the pairs of combinations(proof.lines, 2): tj at an earlier line than tk
Matches_combinations(lines, line) ==
    {m \in (1..Len(lines)) \X (1..Len(lines)) :
        /\ m[1] < m[2]
        /\ eq(lines[m[2]], gt(lines[m[1]], line))}

\* the pairs (tj, tk) of product(proof.lines, repeat=2) with tk == (tj > line),
\* as pairs of positions
Matches(lines, line) ==
    {m \in (1..Len(lines)) \X (1..Len(lines)) :
        eq(lines[m[2]], gt(lines[m[1]], line))}

\* the pair the for loop breaks at: the first in the order of product,
\* tj outer and tk inner
FirstMatch(lines, line) ==
    CHOOSE m \in Matches(lines, line) :
        \A n \in Matches(lines, line) :
            \/ m[1] < n[1]
            \/ (m[1] = n[1] /\ m[2] <= n[2])

\* Case 4: line is the result of modus ponens
case_4(orig, new, prem, line) ==
    IF Matches(orig.lines, line) = {}
    THEN Raise(new, Error("Unable to find the antecedent", line))
    ELSE LET m == FirstMatch(orig.lines, line)
             tj == orig.lines[m[1]]
             tk == orig.lines[m[2]]
             s1 == axiom_2(new, prem, tj, line)
             s2 == modus_ponens(s1, gt(prem, tk), gt(gt(prem, tj), gt(prem, line)))
         IN  IF s2.error # NoError
             THEN s2
             ELSE modus_ponens(s2.proof, gt(prem, tj), gt(prem, line))

\* the body of the loop over zip(proof.lines, proof.applications)
loop_body(orig, new, prem, line, application) ==
    IF eq(line, prem) THEN case_1(new, prem)
    ELSE IF InSet(line, orig.premises) THEN case_2(new, prem, line)
    ELSE IF StartsWithA(application) THEN case_3(new, prem, line, application)
    ELSE case_4(orig, new, prem, line)

(***************************************************************************)
(* Inputs of the client                                                    *)
(***************************************************************************)
\* formulas a proof's premises are drawn from
PremisePool == {p, q, gt(q, gt(q, p))}

\* arguments of axiom_1 and axiom_3, and those of axiom_2
AxiomArgs == {p, q}
Axiom2Args == {p}

\* arguments of modus_ponens
AntecedentArgs == {p, q, false}
ConsequentArgs == {p, gt(q, p), false}

\* the premise use_deduction_theorem is asked to remove
DeductionArgs == PremisePool

(***************************************************************************)
(* State                                                                   *)
(***************************************************************************)
VARIABLES
    proof,      \* the Proof object the client builds
    result,     \* the last call: its name, arguments, what it raised or returned
    pc,         \* "client", or where use_deduction_theorem is: "loop", "returned", "raised"
    new_proof,  \* use_deduction_theorem's new_proof
    pos         \* position of the loop in zip(proof.lines, proof.applications)

vars == <<proof, result, pc, new_proof, pos>>

Call(name, args, error, value) ==
    [call |-> name, args |-> args, error |-> error, value |-> value]

\* new_proof before use_deduction_theorem has created it
NoProof ==
    [premises |-> {}, lines |-> <<>>, applications |-> <<>>,
     ids |-> [premises |-> 0, lines |-> 0, applications |-> 0]]

\* the containers of the client's proof: the set the client passes and the
\* two lists of Proof.__init__
ClientIds == ObjectIds(1, 2)

\* the containers of new_proof sharing those of the input: no new object
NewIds_shared(self) == self.ids

\* the containers of new_proof: the set proof.premises - {premise} and the
\* two lists of Proof.__init__, all created by the call
NewIds(self) == ObjectIds(self.ids.applications + 1, self.ids.applications + 2)

\* what an object reads after `written` was written through `writer`:
\* the containers it shares with the writer show the writes
Seen(self, writer, written) ==
    [self EXCEPT
       !.premises = IF self.ids.premises = writer.ids.premises
                    THEN written.premises ELSE @,
       !.lines = IF self.ids.lines = writer.ids.lines
                 THEN written.lines ELSE @,
       !.applications = IF self.ids.applications = writer.ids.applications
                        THEN written.applications ELSE @]

\* use_deduction_theorem's argument premise
premise == result.args[1]

Init ==
    /\ \E premises \in SUBSET PremisePool :
         \E order \in ListsOf(premises) : proof = Proof(premises, order, ClientIds)
    /\ result = Call("Proof", <<>>, NoError, <<>>)
    /\ pc = "client"
    /\ new_proof = NoProof
    /\ pos = 0

\* lines appended by the client so far
Steps == Len(proof.lines) - Cardinality(proof.premises)

Axiom1 ==
    /\ pc = "client"
    /\ Steps < MaxSteps
    /\ \E a, b \in AxiomArgs :
         /\ proof' = axiom_1(proof, a, b)
         /\ result' = Call("axiom_1", <<a, b>>, NoError, <<>>)
    /\ UNCHANGED <<pc, new_proof, pos>>

Axiom2 ==
    /\ pc = "client"
    /\ Steps < MaxSteps
    /\ \E a, b, c \in Axiom2Args :
         /\ proof' = axiom_2(proof, a, b, c)
         /\ result' = Call("axiom_2", <<a, b, c>>, NoError, <<>>)
    /\ UNCHANGED <<pc, new_proof, pos>>

Axiom3 ==
    /\ pc = "client"
    /\ Steps < MaxSteps
    /\ \E a \in AxiomArgs :
         /\ proof' = axiom_3(proof, a)
         /\ result' = Call("axiom_3", <<a>>, NoError, <<>>)
    /\ UNCHANGED <<pc, new_proof, pos>>

\* a call that appends is taken only below the bound; one that raises always
ModusPonens ==
    /\ pc = "client"
    /\ \E a \in AntecedentArgs, b \in ConsequentArgs :
         LET out == modus_ponens(proof, a, b)
         IN  /\ Steps < MaxSteps \/ out.error # NoError
             /\ proof' = out.proof
             /\ result' = Call("modus_ponens", <<a, b>>, out.error, <<>>)
    /\ UNCHANGED <<pc, new_proof, pos>>

Conclude ==
    /\ pc = "client"
    /\ LET out == conclude(proof)
       IN  result' = Call("conclude", <<>>, out.error, out.value)
    /\ UNCHANGED <<proof, pc, new_proof, pos>>

\* use_deduction_theorem up to the loop: the check of the premise and the
\* new Proof over the remaining premises
DeductionCall ==
    /\ pc = "client"
    /\ \E prem \in DeductionArgs :
         IF ~InSet(prem, proof.premises)
         THEN /\ result' = Call("use_deduction_theorem", <<prem>>,
                                Error("is not a premise of the proof", prem), <<>>)
              /\ UNCHANGED <<pc, new_proof, pos>>
         ELSE /\ result' = Call("use_deduction_theorem", <<prem>>, NoError, <<>>)
              /\ \E order \in ListsOf(SetMinus(proof.premises, prem)) :
                   new_proof' = Proof(SetMinus(proof.premises, prem), order,
                                      NewIds(proof))
              /\ pc' = "loop"
              /\ pos' = 1
    /\ UNCHANGED proof

\* one iteration of the loop; an exception ends the call
DeductionLine ==
    /\ pc = "loop"
    /\ pos <= Len(proof.lines)
    /\ LET out == loop_body(proof, new_proof, premise,
                            proof.lines[pos], proof.applications[pos])
       IN  /\ new_proof' = out.proof
           /\ proof' = Seen(proof, new_proof, out.proof)
           /\ IF out.error # NoError
              THEN /\ pc' = "raised"
                   /\ result' = [result EXCEPT !.error = out.error]
                   /\ pos' = pos
              ELSE /\ pos' = pos + 1
                   /\ UNCHANGED <<pc, result>>

\* return new_proof
DeductionReturn ==
    /\ pc = "loop"
    /\ pos > Len(proof.lines)
    /\ pc' = "returned"
    /\ UNCHANGED <<proof, result, new_proof, pos>>

Next ==
    \/ Axiom1
    \/ Axiom2
    \/ Axiom3
    \/ ModusPonens
    \/ Conclude
    \/ DeductionCall
    \/ DeductionLine
    \/ DeductionReturn

Spec == Init /\ [][Next]_vars

\* the loop from line n of the input to its end: the proof returned, or the
\* exception of the first line that raises
RECURSIVE loop(_, _, _, _)
loop(orig, new, prem, n) ==
    IF n > Len(orig.lines) THEN Ok(new)
    ELSE LET out == loop_body(orig, new, prem, orig.lines[n], orig.applications[n])
         IN  IF out.error # NoError THEN out
             ELSE loop(orig, out.proof, prem, n + 1)

\* use_deduction_theorem as one call; order is the order in which the new
\* Proof enumerates the remaining premises
use_deduction_theorem(self, prem, order) ==
    IF ~InSet(prem, self.premises)
    THEN Raise(NoProof, Error("is not a premise of the proof", prem))
    ELSE loop(self, Proof(SetMinus(self.premises, prem), order, NewIds(self)), prem, 1)

\* the states in which the loop has a next line to take: ENABLED DeductionLine
LineEnabled == pc = "loop" /\ pos <= Len(proof.lines)

\* the states in which the loop is past the last line: ENABLED DeductionReturn
ReturnEnabled == pc = "loop" /\ pos > Len(proof.lines)

\* use_deduction_theorem runs to its end once called: the loop takes its
\* next line and the function returns after the last.  This is weak fairness
\* of DeductionLine and of DeductionReturn, WF_vars(A) written out as
\* []<>~ENABLED <<A>>_vars \/ []<><<A>>_vars with the enabling condition of
\* each action in place of ENABLED, which spares evaluating the whole loop
\* body to decide it.
SpecFair ==
    /\ Spec
    /\ ([]<>~LineEnabled \/ []<><<DeductionLine>>_vars)
    /\ ([]<>~ReturnEnabled \/ []<><<DeductionReturn>>_vars)

(***************************************************************************)
(* Properties                                                              *)
(***************************************************************************)
\* the text of (a => b), written out
ImpName(a, b) == "(" \o a.name \o " => " \o b.name \o ")"

\* f is an instance (a => (b => a)) of schema 1
IsA1(f) ==
    /\ IsProposition(f) /\ IsProposition(f.right)
    /\ f.right.right.name = f.left.name

\* f is an instance ((a => (b => c)) => ((a => b) => (a => c))) of schema 2
IsA2(f) ==
    /\ IsProposition(f) /\ IsProposition(f.left) /\ IsProposition(f.right)
    /\ IsProposition(f.left.right)
    /\ IsProposition(f.right.left) /\ IsProposition(f.right.right)
    /\ f.right.left.left.name = f.left.left.name
    /\ f.right.left.right.name = f.left.right.left.name
    /\ f.right.right.left.name = f.left.left.name
    /\ f.right.right.right.name = f.left.right.right.name

\* f is an instance (((a => _|_) => _|_) => a) of schema 3
IsA3(f) ==
    /\ IsProposition(f) /\ IsProposition(f.left) /\ IsProposition(f.left.left)
    /\ f.left.right.name = "_|_"
    /\ f.left.left.right.name = "_|_"
    /\ f.left.left.left.name = f.right.name

\* line n of pf is an instance of the schema its application names, or the
\* consequent of a modus ponens on two strictly earlier lines it cites
Derived(pf, n) ==
    LET line == pf.lines[n]
        app == pf.applications[n]
    IN  \/ app.kind = "A1" /\ IsA1(line)
        \/ app.kind = "A2" /\ IsA2(line)
        \/ app.kind = "A3" /\ IsA3(line)
        \/ /\ app.kind = "MP"
           /\ app.i \in 1..(n - 1)
           /\ app.j \in 1..(n - 1)
           /\ pf.lines[app.j].name = ImpName(pf.lines[app.i], line)

\* line n of pf is a premise of pf stated as one
IsPremiseLine(pf, n) ==
    /\ pf.applications[n].kind = "premise"
    /\ \E x \in pf.premises : x.name = pf.lines[n].name

\* some line of pf has an application of this kind
HasKind(pf, kind) ==
    \E n \in 1..Len(pf.applications) : pf.applications[n].kind = kind

\* the transition is a call of this step constructor by the client
ClientCall(name) == pc = "client" /\ result'.call = name

\* C1: on every valid proof and every premise of it, use_deduction_theorem
\* raises nothing, and the last line of the proof it returns is
\* (premise => proof.conclude())
C1_DeductionReturnsImplication ==
    /\ pc # "raised"
    /\ pc = "returned" =>
         Last(new_proof.lines).name = ImpName(premise, Last(proof.lines))

\* C2: every line of a proof returned by use_deduction_theorem is a new
\* premise, an instance of the schema its application names, or the
\* consequent of a modus ponens on two strictly earlier lines of that proof
C2_OutputVerifiable ==
    pc = "returned" =>
        \A n \in 1..Len(new_proof.lines) :
            IsPremiseLine(new_proof, n) \/ Derived(new_proof, n)

\* C2 witness: a proof is returned for an input with a modus ponens line
\* and an axiom line
C2_Witness ==
    /\ pc = "returned"
    /\ HasKind(proof, "MP")
    /\ HasKind(proof, "A1")

\* C3: the premises of the returned proof are those of the input without
\* the removed premise, one fewer
C3_PremiseRemoved ==
    pc = "returned" =>
        /\ \A x \in new_proof.premises : x.name # premise.name
        /\ \A x \in proof.premises : x.name # premise.name => x \in new_proof.premises
        /\ new_proof.premises \subseteq proof.premises
        /\ Cardinality(new_proof.premises) = Cardinality(proof.premises) - 1

\* C3 witness: a proof is returned for an input of three premises
C3_Witness ==
    /\ pc = "returned"
    /\ Cardinality(proof.premises) = 3
    /\ Cardinality(new_proof.premises) = 2

\* C4: modus_ponens(a, b) succeeds exactly when a and (a => b) are lines,
\* and then appends the one line b
C4_ModusPonensSound ==
    [][ClientCall("modus_ponens") =>
          LET a == result'.args[1]
              b == result'.args[2]
              has_a == \E n \in 1..Len(proof.lines) : proof.lines[n].name = a.name
              has_ab == \E n \in 1..Len(proof.lines) : proof.lines[n].name = ImpName(a, b)
          IN  /\ (result'.error = NoError) <=> (has_a /\ has_ab)
              /\ result'.error = NoError => proof'.lines = Append(proof.lines, b)
       ]_vars

\* C4 witness: a modus_ponens has succeeded and its consequent is the last line
C4_Witness ==
    /\ result.call = "modus_ponens"
    /\ result.error = NoError
    /\ Last(proof.lines) = result.args[2]
    /\ result.args[1] # result.args[2]

\* C5: a modus_ponens that raises changes nothing in the proof, and names
\* the antecedent when that is no line, the implication when only that is
\* missing
C5_ModusPonensFailure ==
    [][(ClientCall("modus_ponens") /\ result'.error # NoError) =>
          LET a == result'.args[1]
              b == result'.args[2]
              has_a == \E n \in 1..Len(proof.lines) : proof.lines[n].name = a.name
          IN  /\ proof' = proof
              /\ ~has_a => result'.error = [kind |-> "Antecedent", name |-> a.name]
              /\ has_a => result'.error = [kind |-> "Implication", name |-> ImpName(a, b)]
       ]_vars

\* C5 witness: a modus_ponens on a line of the proof has raised for the
\* missing implication
C5_Witness ==
    /\ result.call = "modus_ponens"
    /\ result.error.kind = "Implication"
    /\ \E n \in 1..Len(proof.lines) : proof.lines[n].name = result.args[1].name

\* C6: use_deduction_theorem on a formula that is no premise of the proof
\* raises that it is not a premise, with no new proof created and no line
\* appended anywhere
C6_MissingPremise ==
    [][(ClientCall("use_deduction_theorem")
          /\ \A x \in proof.premises : x.name # result'.args[1].name) =>
          /\ result'.error = [kind |-> "is not a premise of the proof",
                              name |-> result'.args[1].name]
          /\ pc' = "client"
          /\ new_proof' = NoProof
          /\ proof' = proof
       ]_vars

\* C6 witness: the call has raised on a proof without premises that has lines
C6_Witness ==
    /\ result.call = "use_deduction_theorem"
    /\ result.error.kind = "is not a premise of the proof"
    /\ proof.premises = {}
    /\ Len(proof.lines) > 0
    /\ pc = "client"

\* C7: in a proof built through the step constructors, every line after the
\* premises is an instance of the schema its application names or the
\* consequent of a modus ponens on the two strictly earlier lines it cites
C7_LinesDerivable ==
    \A n \in (Cardinality(proof.premises) + 1)..Len(proof.lines) : Derived(proof, n)

\* C7 witness: a proof with a modus ponens line and an axiom line, after a
\* call that raised
C7_Witness ==
    /\ pc = "client"
    /\ HasKind(proof, "MP")
    /\ HasKind(proof, "A1")
    /\ result.error # NoError

Extends(old, new) ==
    /\ new.premises = old.premises
    /\ Len(new.lines) >= Len(old.lines)
    /\ SubSeq(new.lines, 1, Len(old.lines)) = old.lines
    /\ Len(new.applications) >= Len(old.applications)
    /\ SubSeq(new.applications, 1, Len(old.applications)) = old.applications

\* the first |premises| lines of a proof are its premises, stated as such
PremisesFirst(pf) ==
    /\ Len(pf.lines) >= Cardinality(pf.premises)
    /\ {pf.lines[n] : n \in 1..Cardinality(pf.premises)} = pf.premises
    /\ \A n \in 1..Cardinality(pf.premises) : pf.applications[n] = PremiseApp

\* C9: every call, raising or not, keeps the lines and applications there
\* were as a prefix and keeps the premise set; the first |premises| lines
\* are the premises, each stated as a premise
C9_AppendOnly ==
    /\ [](PremisesFirst(proof) /\ (pc # "client" => PremisesFirst(new_proof)))
    /\ [][/\ Extends(proof, proof')
          /\ pc = "loop" => Extends(new_proof, new_proof')
         ]_vars

\* C9 witness: a proof with premises, two appended lines and a last call
\* that raised
C9_Witness ==
    /\ pc = "client"
    /\ proof.premises # {}
    /\ Steps >= 2
    /\ result.call = "modus_ponens"
    /\ result.error # NoError

\* C10: lines and applications of a proof have the same length and each
\* application is that of the line at its position, in the client's proof
\* and in the transformer's, restated axiom lines included
C10_ApplicationsAligned ==
    \A pf \in {proof, new_proof} :
        /\ Len(pf.applications) = Len(pf.lines)
        /\ \A n \in 1..Len(pf.lines) :
               n <= Len(pf.applications) =>
                   (IsPremiseLine(pf, n) \/ Derived(pf, n))

\* C10 witness: a returned proof with a restated axiom_3 line
C10_Witness ==
    /\ pc = "returned"
    /\ HasKind(new_proof, "A3")

\* C11: use_deduction_theorem changes nothing of its input, at no point of
\* the pass and whether it returns or raises, and new_proof refers to no
\* container of the input
C11_InputUntouched ==
    /\ [](pc # "client" =>
            /\ new_proof.ids.premises \notin
                   {proof.ids.premises, proof.ids.lines, proof.ids.applications}
            /\ new_proof.ids.lines \notin
                   {proof.ids.premises, proof.ids.lines, proof.ids.applications}
            /\ new_proof.ids.applications \notin
                   {proof.ids.premises, proof.ids.lines, proof.ids.applications})
    /\ [][(pc # "client" \/ result'.call = "use_deduction_theorem") =>
            proof' = proof]_vars

\* C11 witness: the pass has raised after appending to new_proof
C11_Witness ==
    /\ pc = "raised"
    /\ Len(new_proof.lines) > Len(proof.lines)
    /\ Steps > 0

\* the 1-based position of the first line with this text, 0 if there is none
FirstLine(lines, name) ==
    IF \E n \in 1..Len(lines) : lines[n].name = name
    THEN CHOOSE n \in 1..Len(lines) :
             /\ lines[n].name = name
             /\ \A m \in 1..(n - 1) : lines[m].name # name
    ELSE 0

\* every modus ponens line of pf cites an antecedent a and the implication
\* (a => line), each at the first line where it occurs
CitesFirst(pf) ==
    \A n \in 1..Len(pf.lines) :
        pf.applications[n].kind = "MP" =>
            LET i == pf.applications[n].i
                j == pf.applications[n].j
            IN  /\ i \in 1..(n - 1)
                /\ j \in 1..(n - 1)
                /\ pf.lines[j].name = ImpName(pf.lines[i], pf.lines[n])
                /\ i = FirstLine(pf.lines, pf.lines[i].name)
                /\ j = FirstLine(pf.lines, pf.lines[j].name)

C14_Conclude ==
    /\ [](Len(proof.lines) = 0 =>
            /\ proof.premises = {}
            /\ result.call \notin {"axiom_1", "axiom_2", "axiom_3"}
            /\ ~(result.call = "modus_ponens" /\ result.error = NoError))
    /\ [][ClientCall("conclude") =>
            /\ proof' = proof
            /\ (result'.error # NoError) <=> (Len(proof.lines) = 0)
            /\ Len(proof.lines) = 0 =>
                   result'.error = [kind |-> "IndexError", name |-> ""]
            /\ Len(proof.lines) > 0 =>
                   result'.value = <<proof.lines[Len(proof.lines)]>>
         ]_vars

\* conclude has returned the last of two different lines
C14_WitnessReturned ==
    /\ result.call = "conclude"
    /\ result.error = NoError
    /\ proof.premises = {}
    /\ Len(proof.lines) = 2
    /\ result.value = <<proof.lines[2]>>
    /\ proof.lines[1] # proof.lines[2]

\* C14 witness: conclude has raised on the proof without lines
C14_WitnessEmpty ==
    /\ result.call = "conclude"
    /\ result.error.kind = "IndexError"
    /\ Len(proof.lines) = 0

\* line n of the input falls to case 4 of the loop: it is not the removed
\* premise, no premise, and its application names no axiom
IsCase4(n) ==
    /\ proof.lines[n].name # premise.name
    /\ \A x \in proof.premises : x.name # proof.lines[n].name
    /\ proof.applications[n].kind \notin {"A1", "A2", "A3"}

\* some line of lines has this text
HasLine(lines, name) == \E n \in 1..Len(lines) : lines[n].name = name

\* C15: when case 4 selects a pair (tj, tk) for a line, new_proof already
\* holds (premise => tj) and (premise => tk), and the two modus_ponens calls
\* of the case raise nothing
C15_Case4Prepared ==
    (/\ pc = "loop"
     /\ pos <= Len(proof.lines)
     /\ IsCase4(pos)
     /\ Matches(proof.lines, proof.lines[pos]) # {}) =>
        LET m == FirstMatch(proof.lines, proof.lines[pos])
            tj == proof.lines[m[1]]
            tk == proof.lines[m[2]]
        IN  /\ HasLine(new_proof.lines, ImpName(premise, tj))
            /\ HasLine(new_proof.lines, ImpName(premise, tk))
            /\ case_4(proof, new_proof, premise, proof.lines[pos]).error = NoError

\* C16: the loop takes the original lines in order; when the step for a
\* line t is done the last line of new_proof is (premise => t), and
\* new_proof holds (premise => t) for every line processed so far
C16_LoopInvariant ==
    /\ [](pc \in {"loop", "returned"} =>
            /\ pos >= 1
            /\ pos <= Len(proof.lines) + 1
            /\ pos > 1 =>
                   Last(new_proof.lines).name = ImpName(premise, proof.lines[pos - 1])
            /\ \A k \in 1..(pos - 1) :
                   HasLine(new_proof.lines, ImpName(premise, proof.lines[k])))
    /\ [][(pc = "loop" /\ pc' = "loop") => pos' = pos + 1]_vars

\* C16 witness: the pass is under way and the step just done was for a
\* line derived by modus ponens
C16_Witness ==
    /\ pc = "loop"
    /\ pos > 1
    /\ pos <= Len(proof.lines)
    /\ IsCase4(pos - 1)

\* C17: on a proof built through the step constructors the scan of case 4
\* finds a pair, so 'Unable to find the antecedent' is never raised
C17_AntecedentFound ==
    /\ result.error.kind # "Unable to find the antecedent"
    /\ (pc = "loop" /\ pos <= Len(proof.lines) /\ IsCase4(pos)) =>
           \E i, j \in 1..Len(proof.lines) :
               proof.lines[j].name = ImpName(proof.lines[i], proof.lines[pos])

\* C17 witness: case 4 is about to scan for a line whose implication stands
\* before its antecedent
C17_Witness ==
    /\ pc = "loop"
    /\ pos <= Len(proof.lines)
    /\ IsCase4(pos)
    /\ proof.applications[pos].kind = "MP"
    /\ proof.applications[pos].j < proof.applications[pos].i

\* the number of lines the loop appends for line n of the input: 5 for the
\* removed premise, 2 for another premise, 3 for an axiom line and 3 for a
\* modus ponens line
Expansion(n) ==
    IF proof.lines[n].name = premise.name THEN 5
    ELSE IF \E x \in proof.premises : x.name = proof.lines[n].name THEN 2
    ELSE 3

RECURSIVE ExpansionSum(_)
ExpansionSum(n) == IF n = 0 THEN 0 ELSE Expansion(n) + ExpansionSum(n - 1)

\* C18: use_deduction_theorem ends, returning or raising; each step of the
\* loop appends the fixed number of lines of its case, and a returned proof
\* has |premises| - 1 lines plus the sum of these numbers
C18_TerminatesWithFixedExpansion ==
    /\ (pc = "loop") ~> (pc \in {"returned", "raised"})
    /\ [](pc = "returned" =>
            Len(new_proof.lines) =
                (Cardinality(proof.premises) - 1) + ExpansionSum(Len(proof.lines)))
    /\ [][(pc = "loop" /\ pc' = "loop") =>
            Len(new_proof'.lines) = Len(new_proof.lines) + Expansion(pos)]_vars

\* C18 witness: a proof is returned for an input with the removed premise,
\* another premise, an axiom line and a modus ponens line
C18_Witness ==
    /\ pc = "returned"
    /\ Cardinality(proof.premises) >= 2
    /\ \E n \in 1..Len(proof.lines) : StartsWithA(proof.applications[n])
    /\ \E n \in 1..Len(proof.lines) : IsCase4(n)

\* the proof the calls that built self build when the premise set is
\* enumerated as order: the same axiom calls, and modus_ponens called with
\* the same antecedent and consequent, from line n of self on
RECURSIVE Replay(_, _, _)
Replay(self, built, n) ==
    IF n > Len(self.lines) THEN built
    ELSE IF self.applications[n].kind = "MP"
    THEN Replay(self,
                modus_ponens(built, self.lines[self.applications[n].i],
                             self.lines[n]).proof,
                n + 1)
    ELSE Replay(self,
                [built EXCEPT !.lines = Append(@, self.lines[n]),
                              !.applications = Append(@, self.applications[n])],
                n + 1)

Reordered(self, order) ==
    Replay(self, Proof(self.premises, order, self.ids), Len(order) + 1)

\* C19: whether use_deduction_theorem returns or raises, and the last line of
\* the proof it returns, are the same for every order in which the premise
\* set is enumerated into the first lines of the input proof (and of the new
\* proof), the calls that built the input and the removed premise being the
\* same
C19_OrderIndependent ==
    pc \in {"returned", "raised"} =>
        \A order \in ListsOf(proof.premises) :
            \A new_order \in ListsOf(SetMinus(proof.premises, premise)) :
                LET other == use_deduction_theorem(Reordered(proof, order),
                                                   premise, new_order)
                IN  /\ (other.error = NoError) <=> (pc = "returned")
                    /\ pc = "returned" =>
                         eq(Last(other.proof.lines), Last(new_proof.lines))

(***************************************************************************)
(* Equality of formulas, as a function of two formulas                     *)
(***************************************************************************)
\* names an atom may be given: any string, among them texts that read as
\* an implication
AtomNames == {"p", "q", "(p => q)", "p => p"}

\* the formulas compared: the atoms and the implications between two atoms
EqArgs ==
    {PrimitiveProposition(n) : n \in AtomNames}
        \cup {Proposition(PrimitiveProposition(n[1]), PrimitiveProposition(n[2])) :
                 n \in AtomNames \X AtomNames}

InitEq ==
    /\ proof = Proof({}, <<>>, ClientIds)
    /\ result = Call("Proof", <<>>, NoError, <<>>)
    /\ pc = "client"
    /\ new_proof = NoProof
    /\ pos = 0

\* a == b
Equal ==
    /\ \E a, b \in EqArgs :
         result' = Call("__eq__", <<a, b>>, NoError, <<eq(a, b)>>)
    /\ UNCHANGED <<proof, pc, new_proof, pos>>

NextEq == Equal

SpecEq == InitEq /\ [][NextEq]_vars

\* a and b are atoms of the same name, or implications with structurally
\* equal left parts and structurally equal right parts
RECURSIVE Structural(_, _)
Structural(a, b) ==
    IF IsProposition(a) /\ IsProposition(b)
    THEN Structural(a.left, b.left) /\ Structural(a.right, b.right)
    ELSE /\ ~IsProposition(a)
         /\ ~IsProposition(b)
         /\ a.name = b.name

\* C13: a == b exactly when a and b are structurally equal, and
\* Implication(x, y) != Implication(y, x) whenever x != y
C13_StructuralEquality ==
    result.call = "__eq__" =>
        LET a == result.args[1]
            b == result.args[2]
        IN  /\ result.value[1] <=> Structural(a, b)
            /\ (/\ IsProposition(a) /\ IsProposition(b)
                /\ b.left = a.right /\ b.right = a.left
                /\ ~eq(a.left, a.right)) => ~result.value[1]

====
